---- MODULE Spec2Model ----
(***************************************************************************)
(* A model of src/src/layer.rs: the Layer / ILayer execution contract.     *)
(*                                                                         *)
(* ILayer::forward is modelled one lock operation per step, because the    *)
(* lock operations are its only blocking points and the places where other *)
(* invocations interleave.  Blobs are shared through ArcLock<HeapBlob>     *)
(* (Arc<RwLock<..>>): the lock state of a blob is the set of guards the    *)
(* invocations hold on it.                                                 *)
(*                                                                         *)
(* Acquiring an RwLock the calling thread already holds is not defined by  *)
(* the lock: depending on the platform and toolchain the call blocks       *)
(* forever, panics, or returns a guard (a lock implementation that locks   *)
(* recursively).  The model takes all three outcomes (LockOutcomes).       *)
(***************************************************************************)
EXTENDS Integers, Sequences, FiniteSets, TLC

\* ------------------------------------------------------------------ bounds
NumThreads == 3      \* threads; all of them run in RwSpec
NumConc == 2         \* threads that run in ConcSpec
NumBlobs == 2        \* shared blobs
MaxBottoms == 2      \* longest bottom list of a call (Spec)
MaxTops == 2         \* longest top list of a call (Spec), most tops of a config
MaxConcLen == 1      \* longest bottom / top list of a call in ConcSpec
MaxRwLen == 1        \* most blobs (bottoms and tops together) of a call in RwSpec
BlobCap == 1         \* elements of a blob's data and of its diff
MaxValue == 1        \* blob elements are 0..MaxValue
MaxParamId == 2      \* param_id arguments are 0..MaxParamId
MaxRunId == 1        \* param_id and id arguments in LayerRunSpec are 0..MaxRunId
MaxDim == 2          \* a dimension of a parameter blob's shape is 1..MaxDim
MaxRank == 2         \* most dimensions of a parameter blob's shape
MaxSpare == 1        \* most capacity a parameter blob has beyond its shape's count
MaxMult == 2         \* configured multipliers are 0..MaxMult
MaxCfgBottoms == 3   \* most bottoms a LayerConfig declares, longest mask

Threads == 1..NumThreads
Blobs == 1..NumBlobs
Values == 0..MaxValue
None == "None"

VARIABLES
    \* ---- Layer (layer.rs 16-31) and its LayerConfig (163-183)
    config_tops,            \* LayerConfig.tops: the declared top names
    loss,                   \* Layer.loss
    param_propagate_down,   \* Layer.param_propagate_down
    calls,                  \* the last configuration calls made, newest last
    last_set,               \* per param_id, the value last passed for it, in a list
    loss_result,            \* what the last Layer::loss(id) call returned
    \* ---- LayerConfig (163-183) and one ParamConfig (248-270)
    config_bottoms,         \* LayerConfig.bottoms: the declared bottom names
    config_propagate_down,  \* LayerConfig.propagate_down
    param_config,           \* a ParamConfig
    cfg_args,               \* the arguments check_dimensions is called with
    cfg_result,             \* the last call made on the config, with its result
    \* ---- shared blobs
    data,                   \* HeapBlob cpu_data of every blob
    diff,                   \* HeapBlob cpu_diff of every blob
    poisoned,               \* the blobs whose RwLock is poisoned
    \* ---- one ILayer::forward invocation per thread
    pc,                     \* where the invocation stands
    bottom,                 \* argument `bottom`
    top,                    \* argument `top`
    btm,                    \* the read guards collected at line 88, in order
    tp,                     \* the write guards collected at line 91, in order
    top_id,                 \* index of the loop at line 96
    top_blob,               \* the read guard of line 100 while it is held, in a list
    fwd_loss,               \* local `loss` of forward; the value returned
    cpu_calls,              \* calls of forward_cpu made by the invocation
    failure                 \* why the invocation panicked, None if it did not

configVars == <<config_bottoms, config_propagate_down, param_config, cfg_args,
                cfg_result>>
layerVars == <<config_tops, loss, param_propagate_down, calls, last_set,
               loss_result, configVars>>
blobVars == <<data, diff, poisoned>>
fwdVars == <<pc, bottom, top, btm, tp, top_id, top_blob, fwd_loss, cpu_calls,
             failure>>
vars == <<layerVars, blobVars, fwdVars>>

\* ------------------------------------------------------------- helpers
Range(s) == {s[i] : i \in 1..Len(s)}

SeqsUpTo(S, n) == UNION {[1..k -> S] : k \in 0..n}

Contents == [1..BlobCap -> Values]

ZeroContent == [i \in 1..BlobCap |-> 0]

RECURSIVE DotFrom(_, _, _)
DotFrom(x, y, i) ==
    IF i > Len(x) THEN 0 ELSE x[i] * y[i] + DotFrom(x, y, i + 1)

\* leaf_cpu_dot(data, loss_weights), line 105
leaf_cpu_dot(x, y) == DotFrom(x, y, 1)

\* ------------------------------------------------- Layer (lines 33-70)
\* Mutant: the new slots are filled with false
Resize_FillsFalse(v, n) == [i \in 1..n |-> IF i <= Len(v) THEN v[i] ELSE FALSE]

\* Vec::resize(n, true) on a vector shorter than n
Resize(v, n) == [i \in 1..n |-> IF i <= Len(v) THEN v[i] ELSE TRUE]

\* Mutant: the assignment of line 62 moved into an else branch
SetParamPropagateDown_GrowOrSet(v, param_id, value) ==
    IF Len(v) <= param_id
    THEN Resize(v, param_id + 1)
    ELSE [v EXCEPT ![param_id + 1] = value]

\* Mutant: the resize of line 60 made whatever the length, cutting the
\* vector down to param_id + 1 entries
SetParamPropagateDown_Truncates(v, param_id, value) ==
    [Resize(v, param_id + 1) EXCEPT ![param_id + 1] = value]

\* Layer::set_param_propagate_down, lines 58-64 (param_id counts from 0)
SetParamPropagateDown(v, param_id, value) ==
    LET grown == IF Len(v) <= param_id THEN Resize(v, param_id + 1) ELSE v
    IN  [grown EXCEPT ![param_id + 1] = value]

\* Layer::loss, lines 67-69: self.loss.get(id)
LayerLoss(id) == IF id < Len(loss) THEN <<"Some", loss[id + 1]>> ELSE <<None>>

\* ------------------------------------------ LayerConfig (lines 163-242)
\* Mutant: a mask shorter than the bottoms passes
CheckPropagateDownLen_AtMost(bottoms, propagate_down) ==
    Len(propagate_down) = 0 \/ Len(propagate_down) <= Len(bottoms)

\* LayerConfig::check_propagate_down_len, lines 239-241
CheckPropagateDownLen(bottoms, propagate_down) ==
    Len(propagate_down) = 0 \/ Len(propagate_down) = Len(bottoms)

\* ------------------------------------------ ParamConfig (lines 248-341)
Names == {"", "w"}

\* Option<f32> of lr_mult and decay_mult
Mults == {<<None>>} \cup {<<"Some", v>> : v \in 0..MaxMult}

ParamConfigs ==
    [name : Names, share_mode : {"Strict", "Permissive"},
     lr_mult : Mults, decay_mult : Mults]

\* ParamConfig::default, lines 272-281
DefaultParamConfig ==
    [name |-> "", share_mode |-> "Strict", lr_mult |-> <<None>>,
     decay_mult |-> <<None>>]

\* The shapes of parameter blobs (phloem::Blob::shape)
Shapes == SeqsUpTo(1..MaxDim, MaxRank)

RECURSIVE CountFrom(_, _)
CountFrom(shape, i) ==
    IF i > Len(shape) THEN 1 ELSE shape[i] * CountFrom(shape, i + 1)

\* The number of elements of a shape
Count(shape) == CountFrom(shape, 1)

\* phloem::Blob: a shape and a buffer.  reshape allocates a buffer of the
\* shape's count only when the count exceeds the buffer's capacity, so a blob
\* reshaped to a smaller shape keeps the larger capacity.
ParamBlobs ==
    {[shape |-> sh, capacity |-> Count(sh) + spare] :
        sh \in Shapes, spare \in 0..MaxSpare}

\* blob.shape_string(): the dimensions, then the capacity in parentheses
ShapeString(blob) == [dims |-> blob.shape, capacity |-> blob.capacity]

\* format!(..) of lines 297-305 and 311-319: the text with its five arguments
ErrMessage(kind, param_name, owner_name, layer_name, owner_shape, sharer_shape) ==
    [text |-> kind, param |-> param_name, owner |-> owner_name,
     sharer |-> layer_name, owner_shape |-> owner_shape,
     sharer_shape |-> sharer_shape]

\* Mutant: Strict compares the element counts of the shapes, as Permissive is
\* meant to
CheckDimensions_StrictByCount(self, blob_one, blob_two, param_name, owner_name, layer_name) ==
    IF self.share_mode = "Permissive" /\ blob_one.capacity # blob_two.capacity
    THEN <<"Err", ErrMessage("count mismatch", param_name, owner_name, layer_name,
                             ShapeString(blob_two), ShapeString(blob_one))>>
    ELSE IF self.share_mode = "Strict"
            /\ Count(blob_one.shape) # Count(blob_two.shape)
    THEN <<"Err", ErrMessage("shape mismatch", param_name, owner_name, layer_name,
                             ShapeString(blob_two), ShapeString(blob_one))>>
    ELSE <<"Ok">>

\* ParamConfig::check_dimensions, lines 286-324
CheckDimensions(self, blob_one, blob_two, param_name, owner_name, layer_name) ==
    IF self.share_mode = "Permissive" /\ blob_one.capacity # blob_two.capacity
    THEN <<"Err", ErrMessage("count mismatch", param_name, owner_name, layer_name,
                             ShapeString(blob_two), ShapeString(blob_one))>>
    ELSE IF self.share_mode = "Strict" /\ blob_one.shape # blob_two.shape
    THEN <<"Err", ErrMessage("shape mismatch", param_name, owner_name, layer_name,
                             ShapeString(blob_two), ShapeString(blob_one))>>
    ELSE <<"Ok">>

\* ParamConfig::lr_mult, lines 327-332
LrMult(self) == IF self.lr_mult[1] = "Some" THEN self.lr_mult[2] ELSE 1

\* Mutant: decay_mult matches on the lr_mult field
DecayMult_ReadsLrMult(self) ==
    IF self.lr_mult[1] = "Some" THEN self.lr_mult[2] ELSE 1

\* ParamConfig::decay_mult, lines 335-340
DecayMult(self) == IF self.decay_mult[1] = "Some" THEN self.decay_mult[2] ELSE 1

\* ------------------------------------------ RwLock of a blob (lines 9-12)
\* The guards an invocation holds: ReadBlob guards in btm and top_blob,
\* WriteBlob guards in tp.
HoldsRead(t, b) == b \in Range(btm[t]) \/ b \in Range(top_blob[t])

HoldsWrite(t, b) == b \in Range(tp[t])

Holds(t, b) == HoldsRead(t, b) \/ HoldsWrite(t, b)

Readers(b) == {t \in Threads : HoldsRead(t, b)}

Writers(b) == {t \in Threads : HoldsWrite(t, b)}

\* RwLock::read returns only while no other thread holds the write lock
ReadFree(t, b) == \A u \in Threads \ {t} : ~HoldsWrite(u, b)

\* Mutant: a writer that does not wait for the readers
WriteFree_IgnoresReaders(t, b) == \A u \in Threads \ {t} : ~HoldsWrite(u, b)

\* RwLock::write returns only while no other thread holds any lock
WriteFree(t, b) == \A u \in Threads \ {t} : ~Holds(u, b)

\* A thread waits at line 91 for the write lock of b
WriterWaiting(b) ==
    \E u \in Threads :
        pc[u] = "tp" /\ Len(tp[u]) < Len(top[u]) /\ top[u][Len(tp[u]) + 1] = b

\* What taking a lock the thread itself holds may do, by what it holds and
\* what it asks for.  The lock does not define it:
\*   read while holding the write lock, write while holding the write lock:
\*     the call blocks forever, panics, or returns a guard (a lock that
\*     reports the deadlock to a caller that ignores it, or locks recursively);
\*   write while holding only read locks: no lock grants it; the call blocks
\*     forever or panics;
\*   read while holding only read locks: granted, but a lock that prefers
\*     writers blocks it forever once a writer waits.
Relock(t, b, kind) ==
    IF HoldsWrite(t, b) THEN {"guard", "relock", "deadlock"}
    ELSE IF kind = "write" THEN {"relock", "deadlock"}
    ELSE {"guard"} \cup (IF WriterWaiting(b) THEN {"deadlock"} ELSE {})

\* Mutant: the PoisonError is not unwrapped but its guard used
LockOutcomes_IgnoresPoison(t, b, kind) ==
    IF Holds(t, b) THEN Relock(t, b, kind) ELSE {"guard"}

\* What b.read().unwrap() (lines 88, 100) and b.write().unwrap() (line 91) do
\* once no other thread stands in the way: "guard" (the guard is returned),
\* "poisoned" (the lock is poisoned: unwrap panics on the PoisonError),
\* "relock" (the lock panics), "deadlock" (the call never returns).
LockOutcomes(t, b, kind) ==
    LET taken == IF Holds(t, b) THEN Relock(t, b, kind) ELSE {"guard"}
    IN  IF poisoned[b]
        THEN (taken \ {"guard"}) \cup (IF "guard" \in taken THEN {"poisoned"} ELSE {})
        ELSE taken

\* Mutant: the read guards of the bottoms are leaked (never dropped)
FrameGone_LeaksBottomGuards(t) ==
    /\ bottom' = [bottom EXCEPT ![t] = <<>>]
    /\ top' = [top EXCEPT ![t] = <<>>]
    /\ top_id' = [top_id EXCEPT ![t] = 0]
    /\ btm' = btm
    /\ tp' = [tp EXCEPT ![t] = <<>>]
    /\ top_blob' = [top_blob EXCEPT ![t] = <<>>]

\* The frame of forward is gone: its arguments and locals no longer exist.
FrameGone(t) ==
    /\ bottom' = [bottom EXCEPT ![t] = <<>>]
    /\ top' = [top EXCEPT ![t] = <<>>]
    /\ top_id' = [top_id EXCEPT ![t] = 0]
    /\ btm' = [btm EXCEPT ![t] = <<>>]
    /\ tp' = [tp EXCEPT ![t] = <<>>]
    /\ top_blob' = [top_blob EXCEPT ![t] = <<>>]

\* A panic unwinds forward: every guard is dropped, and a WriteBlob guard
\* dropped while panicking poisons its lock.  No loss is returned.
Unwind(t, why) ==
    /\ pc' = [pc EXCEPT ![t] = "panicked"]
    /\ failure' = [failure EXCEPT ![t] = why]
    /\ poisoned' = [b \in Blobs |-> poisoned[b] \/ HoldsWrite(t, b)]
    /\ fwd_loss' = [fwd_loss EXCEPT ![t] = 0]
    /\ FrameGone(t)

\* The thread waits for a lock it holds itself: it never runs again.
BlockForever(t) ==
    /\ pc' = [pc EXCEPT ![t] = "deadlocked"]
    /\ UNCHANGED <<poisoned, bottom, top, top_id, btm, tp, top_blob, fwd_loss,
                   failure>>

\* ------------------------------------ ILayer::forward (lines 83-111)
\* Mutant: the bottoms are taken last to first
NextBottom_Reversed(t) == bottom[t][Len(bottom[t]) - Len(btm[t])]

\* The bottom the iterator of line 88 yields next
NextBottom(t) == bottom[t][Len(btm[t]) + 1]

\* The top the iterator of line 91 yields next
NextTop(t) == top[t][Len(tp[t]) + 1]

\* The top the loop of line 96 is at
LoopTop(t) == top[t][top_id[t] + 1]

\* Mutant: entering forward resets the Layer's flags
Call_ClearsFlags(t, bs, ts) ==
    /\ pc[t] \in {"idle", "returned", "panicked"}
    /\ pc' = [pc EXCEPT ![t] = "btm"]
    /\ bottom' = [bottom EXCEPT ![t] = bs]
    /\ top' = [top EXCEPT ![t] = ts]
    /\ btm' = [btm EXCEPT ![t] = <<>>]
    /\ tp' = [tp EXCEPT ![t] = <<>>]
    /\ top_id' = [top_id EXCEPT ![t] = 0]
    /\ top_blob' = [top_blob EXCEPT ![t] = <<>>]
    /\ fwd_loss' = [fwd_loss EXCEPT ![t] = 0]
    /\ cpu_calls' = [cpu_calls EXCEPT ![t] = 0]
    /\ failure' = [failure EXCEPT ![t] = None]
    /\ param_propagate_down' = <<>>
    /\ UNCHANGED <<config_tops, loss, calls, last_set, loss_result, configVars,
                   blobVars>>

\* forward(bottom, top) is entered; line 86: let mut loss = 0f32
Call(t, bs, ts) ==
    /\ pc[t] \in {"idle", "returned", "panicked"}
    /\ pc' = [pc EXCEPT ![t] = "btm"]
    /\ bottom' = [bottom EXCEPT ![t] = bs]
    /\ top' = [top EXCEPT ![t] = ts]
    /\ btm' = [btm EXCEPT ![t] = <<>>]
    /\ tp' = [tp EXCEPT ![t] = <<>>]
    /\ top_id' = [top_id EXCEPT ![t] = 0]
    /\ top_blob' = [top_blob EXCEPT ![t] = <<>>]
    /\ fwd_loss' = [fwd_loss EXCEPT ![t] = 0]
    /\ cpu_calls' = [cpu_calls EXCEPT ![t] = 0]
    /\ failure' = [failure EXCEPT ![t] = None]
    /\ UNCHANGED <<layerVars, blobVars>>

\* line 88, one element: b.read().unwrap()
LockBottom(t) ==
    /\ pc[t] = "btm"
    /\ Len(btm[t]) < Len(bottom[t])
    /\ ReadFree(t, NextBottom(t))
    /\ \E o \in LockOutcomes(t, NextBottom(t), "read") :
          IF o = "guard"
          THEN /\ btm' = [btm EXCEPT ![t] = Append(@, NextBottom(t))]
               /\ UNCHANGED <<pc, poisoned, bottom, top, top_id, tp, top_blob,
                              fwd_loss, failure>>
          ELSE IF o = "deadlock" THEN BlockForever(t) ELSE Unwind(t, o)
    /\ UNCHANGED <<layerVars, data, diff, cpu_calls>>

\* line 90: every bottom guard is collected, the top handles are cloned
CloneTops(t) ==
    /\ pc[t] = "btm"
    /\ Len(btm[t]) = Len(bottom[t])
    /\ pc' = [pc EXCEPT ![t] = "tp"]
    /\ UNCHANGED <<layerVars, blobVars, bottom, top, btm, tp, top_id, top_blob,
                   fwd_loss, cpu_calls, failure>>

\* line 91, one element: b.write().unwrap()
LockTop(t) ==
    /\ pc[t] = "tp"
    /\ Len(tp[t]) < Len(top[t])
    /\ WriteFree(t, NextTop(t))
    /\ \E o \in LockOutcomes(t, NextTop(t), "write") :
          IF o = "guard"
          THEN /\ tp' = [tp EXCEPT ![t] = Append(@, NextTop(t))]
               /\ UNCHANGED <<pc, poisoned, bottom, top, top_id, btm, top_blob,
                              fwd_loss, failure>>
          ELSE IF o = "deadlock" THEN BlockForever(t) ELSE Unwind(t, o)
    /\ UNCHANGED <<layerVars, data, diff, cpu_calls>>

\* Mutant: a Worker that reaches every blob
Writable_Any(t) == Blobs

\* Mutant: a Worker that is handed its bottoms writable too
Writable_WithBottoms(t) == Range(tp[t]) \cup Range(btm[t])

\* The blobs forward_cpu can write: those it is handed a WriteBlob of (line 76)
Writable(t) == Range(tp[t])

\* What forward_cpu leaves in the blobs: anything in the writable ones
WorkerWrites(t, nd, nf) ==
    /\ data' = [b \in Blobs |-> IF b \in Writable(t) THEN nd[b] ELSE data[b]]
    /\ diff' = [b \in Blobs |-> IF b \in Writable(t) THEN nf[b] ELSE diff[b]]

\* Mutant: the call of line 94, which is commented out, made as well
ForwardCpu_Twice(t) ==
    /\ pc[t] = "tp"
    /\ Len(tp[t]) = Len(top[t])
    /\ \E nd \in [Writable(t) -> Contents], nf \in [Writable(t) -> Contents] :
          WorkerWrites(t, nd, nf)
    /\ pc' = [pc EXCEPT ![t] = "acc"]
    /\ cpu_calls' = [cpu_calls EXCEPT ![t] = @ + 2]
    /\ UNCHANGED <<layerVars, poisoned, bottom, top, btm, tp, top_id, top_blob,
                   fwd_loss, failure>>

\* lines 92-93: self.forward_cpu(&btm, tpo) returns
ForwardCpu(t) ==
    /\ pc[t] = "tp"
    /\ Len(tp[t]) = Len(top[t])
    /\ \E nd \in [Writable(t) -> Contents], nf \in [Writable(t) -> Contents] :
          WorkerWrites(t, nd, nf)
    /\ pc' = [pc EXCEPT ![t] = "acc"]
    /\ cpu_calls' = [cpu_calls EXCEPT ![t] = @ + 1]
    /\ UNCHANGED <<layerVars, poisoned, bottom, top, btm, tp, top_id, top_blob,
                   fwd_loss, failure>>

\* lines 92-93: the Worker panics inside forward_cpu, after writing some of
\* its output
WorkerPanic(t) ==
    /\ pc[t] = "tp"
    /\ Len(tp[t]) = Len(top[t])
    /\ \E nd \in [Writable(t) -> Contents], nf \in [Writable(t) -> Contents] :
          WorkerWrites(t, nd, nf)
    /\ Unwind(t, "worker")
    /\ cpu_calls' = [cpu_calls EXCEPT ![t] = @ + 1]
    /\ UNCHANGED layerVars

\* lines 96-100: the loop takes its next top, top_layer.read().unwrap()
AccRead(t) ==
    /\ pc[t] = "acc"
    /\ top_blob[t] = <<>>
    /\ top_id[t] < Len(top[t])
    /\ ReadFree(t, LoopTop(t))
    /\ \E o \in LockOutcomes(t, LoopTop(t), "read") :
          IF o = "guard"
          THEN /\ top_blob' = [top_blob EXCEPT ![t] = <<LoopTop(t)>>]
               /\ UNCHANGED <<pc, poisoned, bottom, top, top_id, btm, tp, fwd_loss,
                              failure>>
          ELSE IF o = "deadlock" THEN BlockForever(t) ELSE Unwind(t, o)
    /\ UNCHANGED <<layerVars, data, diff, cpu_calls>>

\* What one iteration of the loop adds to loss for top index i (lines 97-105;
\* the test of the top's loss weight is commented out at lines 97-98)
Contribution(t, i) == leaf_cpu_dot(data[top_blob[t][1]], diff[top_blob[t][1]])

\* lines 102-106: loss += leaf_cpu_dot(data, loss_weights); top_blob is dropped
AccAdd(t) ==
    /\ pc[t] = "acc"
    /\ top_blob[t] # <<>>
    /\ fwd_loss' = [fwd_loss EXCEPT ![t] = @ + Contribution(t, top_id[t])]
    /\ top_blob' = [top_blob EXCEPT ![t] = <<>>]
    /\ top_id' = [top_id EXCEPT ![t] = @ + 1]
    /\ UNCHANGED <<layerVars, blobVars, pc, bottom, top, btm, tp, cpu_calls,
                   failure>>

\* lines 110-111: the loop is over; the locals are dropped in reverse order of
\* declaration, the write guards (tp) first
DropTops(t) ==
    /\ pc[t] = "acc"
    /\ top_blob[t] = <<>>
    /\ top_id[t] = Len(top[t])
    /\ pc' = [pc EXCEPT ![t] = "drop"]
    /\ tp' = [tp EXCEPT ![t] = <<>>]
    /\ UNCHANGED <<layerVars, blobVars, bottom, top, btm, top_id, top_blob,
                   fwd_loss, cpu_calls, failure>>

\* line 111: the read guards (btm) are dropped and loss is returned
Return(t) ==
    /\ pc[t] = "drop"
    /\ pc' = [pc EXCEPT ![t] = "returned"]
    /\ FrameGone(t)
    /\ UNCHANGED <<layerVars, blobVars, fwd_loss, cpu_calls, failure>>

\* The steps of a running invocation
Step(t) ==
    \/ LockBottom(t)
    \/ CloneTops(t)
    \/ LockTop(t)
    \/ ForwardCpu(t)
    \/ WorkerPanic(t)
    \/ AccRead(t)
    \/ AccAdd(t)
    \/ DropTops(t)
    \/ Return(t)

\* ------------------------------------------------------- specifications
\* LayerConfig::new (lines 195-206) and ParamConfig::default (lines 272-281)
InitConfig ==
    /\ config_bottoms = <<>>
    /\ config_propagate_down = <<>>
    /\ param_config = DefaultParamConfig
    /\ cfg_args = <<>>
    /\ cfg_result = <<>>

\* No set_param_propagate_down call was made yet
NeverSet == [param_id \in 0..MaxParamId |-> <<>>]

\* Layer::from_config (lines 36-48) for a LayerConfig with the tops ts
InitLayer(ts) ==
    /\ config_tops = ts
    /\ loss = <<>>
    /\ param_propagate_down = <<>>
    /\ calls = <<>>
    /\ last_set = NeverSet
    /\ loss_result = <<>>

InitBlobs ==
    /\ data = [b \in Blobs |-> ZeroContent]
    /\ diff = [b \in Blobs |-> ZeroContent]
    /\ poisoned = [b \in Blobs |-> FALSE]

InitForward ==
    /\ pc = [t \in Threads |-> "idle"]
    /\ bottom = [t \in Threads |-> <<>>]
    /\ top = [t \in Threads |-> <<>>]
    /\ btm = [t \in Threads |-> <<>>]
    /\ tp = [t \in Threads |-> <<>>]
    /\ top_id = [t \in Threads |-> 0]
    /\ top_blob = [t \in Threads |-> <<>>]
    /\ fwd_loss = [t \in Threads |-> 0]
    /\ cpu_calls = [t \in Threads |-> 0]
    /\ failure = [t \in Threads |-> None]

Init == InitLayer(<<>>) /\ InitConfig /\ InitBlobs /\ InitForward

\* One caller: every invocation starts alone, after the one before it ended.
CallAlone ==
    \E bs \in SeqsUpTo(Blobs, MaxBottoms), ts \in SeqsUpTo(Blobs, MaxTops) :
        Call(1, bs, ts)

Next == CallAlone \/ Step(1)

Spec == Init /\ [][Next]_vars

\* One caller whose thread keeps running: a running invocation takes its next
\* step whenever it can.
FairSpec == Spec /\ WF_vars(Step(1))

\* Invocations on several threads at once.
CallConc(t) ==
    \E bs \in SeqsUpTo(Blobs, MaxConcLen), ts \in SeqsUpTo(Blobs, MaxConcLen) :
        Call(t, bs, ts)

ConcNext == \E t \in 1..NumConc : CallConc(t) \/ Step(t)

ConcSpec == Init /\ [][ConcNext]_vars

\* Invocations on every thread at once, each of few blobs.
CallRw(t) ==
    \E bs \in SeqsUpTo(Blobs, MaxRwLen), ts \in SeqsUpTo(Blobs, MaxRwLen) :
        Len(bs) + Len(ts) <= MaxRwLen /\ Call(t, bs, ts)

RwNext == \E t \in Threads : CallRw(t) \/ Step(t)

RwSpec == Init /\ [][RwNext]_vars

\* A Layer, on its own: built from any LayerConfig, then configured and queried.
\* Layer::from_config (lines 36-48) on a config declaring the tops ts
FromConfig(ts) ==
    /\ config_tops' = ts
    /\ loss' = <<>>
    /\ param_propagate_down' = <<>>
    /\ calls' = <<>>
    /\ last_set' = NeverSet
    /\ loss_result' = <<>>
    /\ UNCHANGED <<configVars, blobVars, fwdVars>>

\* The last two calls, newest last
Remember(call) == IF calls = <<>> THEN <<call>> ELSE <<calls[Len(calls)], call>>

\* layer.set_param_propagate_down(param_id, value)
SetParamPropagateDownCall(param_id, value) ==
    /\ param_propagate_down' =
          SetParamPropagateDown(param_propagate_down, param_id, value)
    /\ calls' = Remember([param_id |-> param_id, value |-> value,
                          before |-> param_propagate_down,
                          after |-> param_propagate_down'])
    /\ last_set' = [last_set EXCEPT ![param_id] = <<value>>]
    /\ UNCHANGED <<config_tops, loss, loss_result, configVars, blobVars, fwdVars>>

\* layer.loss(id)
LossCall(id) ==
    /\ loss_result' = <<id, LayerLoss(id)>>
    /\ UNCHANGED <<config_tops, loss, param_propagate_down, calls, last_set,
                   configVars, blobVars, fwdVars>>

LayerInit ==
    /\ \E ts \in SeqsUpTo(Blobs, MaxTops) : InitLayer(ts)
    /\ InitConfig
    /\ InitBlobs
    /\ InitForward

LayerNext ==
    \/ \E ts \in SeqsUpTo(Blobs, MaxTops) : FromConfig(ts)
    \/ \E param_id \in 0..MaxParamId, value \in BOOLEAN :
          SetParamPropagateDownCall(param_id, value)
    \/ \E id \in 0..MaxTops : LossCall(id)

LayerSpec == LayerInit /\ [][LayerNext]_vars

\* A Layer that is configured and queried between and during the forward
\* calls of one thread.
LayerRunNext ==
    \/ \E param_id \in 0..MaxRunId, value \in BOOLEAN :
          SetParamPropagateDownCall(param_id, value)
    \/ \E id \in 0..MaxRunId : LossCall(id)
    \/ CallRw(1)
    \/ Step(1)

LayerRunSpec == Init /\ [][LayerRunNext]_vars

\* What a query leaves alone: everything but the record of the call
QueryFrame ==
    UNCHANGED <<config_bottoms, config_propagate_down, param_config, cfg_args,
                config_tops, loss, param_propagate_down, calls, last_set,
                loss_result, blobVars, fwdVars>>

\* The arguments of check_dimensions: two blobs and three names
CheckArgs ==
    [blob_one : ParamBlobs, blob_two : ParamBlobs, param_name : Names,
     owner_name : Names, layer_name : Names]

\* param_config.check_dimensions(blob_one, blob_two, param_name, owner_name,
\* layer_name)
CheckDimensionsCall ==
    /\ cfg_result' =
          [op |-> "check_dimensions",
           value |-> CheckDimensions(param_config, cfg_args.blob_one,
                                     cfg_args.blob_two, cfg_args.param_name,
                                     cfg_args.owner_name, cfg_args.layer_name)]
    /\ QueryFrame

\* param_config.lr_mult()
LrMultCall ==
    /\ cfg_result' = [op |-> "lr_mult", value |-> LrMult(param_config)]
    /\ QueryFrame

\* param_config.decay_mult()
DecayMultCall ==
    /\ cfg_result' = [op |-> "decay_mult", value |-> DecayMult(param_config)]
    /\ QueryFrame

\* A ParamConfig, on its own: any value of its public fields, queried with
\* any arguments.
ParamInit ==
    /\ InitLayer(<<>>) /\ InitBlobs /\ InitForward
    /\ config_bottoms = <<>>
    /\ config_propagate_down = <<>>
    /\ param_config \in ParamConfigs
    /\ cfg_args \in CheckArgs
    /\ cfg_result = <<>>

ParamNext == CheckDimensionsCall \/ LrMultCall \/ DecayMultCall

ParamSpec == ParamInit /\ [][ParamNext]_vars

\* config.check_propagate_down_len()
CheckPropagateDownLenCall ==
    /\ cfg_result' =
          [op |-> "check_propagate_down_len",
           value |-> CheckPropagateDownLen(config_bottoms, config_propagate_down)]
    /\ QueryFrame

\* A LayerConfig, on its own: any bottoms and any mask, then validated.
LayerConfigInit ==
    /\ InitLayer(<<>>) /\ InitBlobs /\ InitForward
    /\ config_bottoms \in SeqsUpTo(Names, MaxCfgBottoms)
    /\ config_propagate_down \in SeqsUpTo(BOOLEAN, MaxCfgBottoms)
    /\ param_config = DefaultParamConfig
    /\ cfg_args = <<>>
    /\ cfg_result = <<>>

LayerConfigNext == CheckPropagateDownLenCall

LayerConfigSpec == LayerConfigInit /\ [][LayerConfigNext]_vars

\* ================================================================ claims
\* The blobs an invocation was passed
ArgBlobs(t) == Range(bottom[t]) \cup Range(top[t])

\* The invocation's frame exists: it was called and has neither returned nor
\* panicked
Running(t) == pc[t] \in {"btm", "tp", "acc", "drop", "deadlocked"}

\* No blob is passed twice (twice as a bottom, twice as a top, or as both)
NoAlias(t) ==
    LET all == bottom[t] \o top[t]
    IN  \A i, j \in 1..Len(all) : all[i] = all[j] => i = j

\* The blob of the lock request the invocation stands at (lines 88, 91, 100),
\* in a set; no blob when it stands at none
Requested(t) ==
    IF pc[t] = "btm" /\ Len(btm[t]) < Len(bottom[t]) THEN {NextBottom(t)}
    ELSE IF pc[t] = "tp" /\ Len(tp[t]) < Len(top[t]) THEN {NextTop(t)}
    ELSE IF pc[t] = "acc" /\ top_blob[t] = <<>> /\ top_id[t] < Len(top[t])
         THEN {LoopTop(t)}
    ELSE {}

\* C1: a forward invocation never requests a lock on a blob it still holds a
\* lock on, and holds no write lock on a top any more when the loss
\* accumulation starts.  Stated for the calls that pass no blob twice; the
\* claim covers the other calls too, and fails on these already.
C1_NoLockRequestOnHeldBlob ==
    \A t \in Threads :
        NoAlias(t) =>
            /\ \A b \in Requested(t) : ~Holds(t, b)
            /\ pc[t] = "acc" => tp[t] = <<>>

\* C2: an invocation started alone (Spec runs one invocation at a time) is
\* never blocked forever: it returns or fails.  Stated for the calls that
\* pass no blob twice, where no caller's aliasing is to blame.
C2_AloneNeverBlockedForever ==
    \A t \in Threads : NoAlias(t) => pc[t] # "deadlocked"

\* The top with index id has a loss weight that is set and not zero
Weighted(id) == LayerLoss(id)[1] = "Some" /\ LayerLoss(id)[2] # 0

RECURSIVE WeightedSumFrom(_, _)
WeightedSumFrom(t, i) ==
    IF i > Len(top[t]) THEN 0
    ELSE (IF Weighted(i - 1)
          THEN leaf_cpu_dot(data[top[t][i]], diff[top[t][i]])
          ELSE 0) + WeightedSumFrom(t, i + 1)

\* C3: the loss forward returns (fwd_loss once the loop of line 96 is over) is
\* the sum of dot(data, diff) over the tops whose loss weight is set and not
\* zero; the other tops add nothing.
C3_ReturnsWeightedSum ==
    \A t \in Threads : pc[t] = "drop" => fwd_loss[t] = WeightedSumFrom(t, 1)

IsPrefix(p, q) == Len(p) <= Len(q) /\ \A i \in 1..Len(p) : p[i] = q[i]

\* Everything of one invocation
Local(t) ==
    <<pc[t], bottom[t], top[t], btm[t], tp[t], top_id[t], top_blob[t],
      fwd_loss[t], cpu_calls[t], failure[t]>>

\* Everything of one blob
BlobState(b) == <<data[b], diff[b], poisoned[b]>>

C4_OrderInState ==
    \A t \in Threads :
        /\ IsPrefix(btm[t], bottom[t])
        /\ IsPrefix(tp[t], top[t])
        /\ (pc[t] = "tp" \/ tp[t] # <<>>) => btm[t] = bottom[t]
        /\ pc[t] \in {"btm", "tp"} =>
              cpu_calls[t] = 0 /\ top_id[t] = 0 /\ top_blob[t] = <<>>
        /\ (top_id[t] > 0 \/ top_blob[t] # <<>>) => cpu_calls[t] = 1

C4_OrderInStep ==
    \A t \in Threads :
        /\ cpu_calls'[t] = cpu_calls[t] + 1 =>
              btm[t] = bottom[t] /\ tp[t] = top[t] /\ top_id[t] = 0
                 /\ top_blob[t] = <<>>
        /\ (Len(tp'[t]) > Len(tp[t]) \/ (pc[t] = "tp" /\ Local(t)' # Local(t))) =>
              btm[t] = bottom[t]

\* C4: within one forward call the read locks on the bottoms are acquired in
\* declared order, all of them before the first write lock on a top is
\* requested; the write locks on the tops are acquired in declared order;
\* forward_cpu is called only with every bottom read lock and every top write
\* lock held, and before the loop reads any top.
C4_LockOrder == []C4_OrderInState /\ [][C4_OrderInStep]_vars

\* C4 witness: forward_cpu has run under a bottom read lock and a top write lock
C4_Witness ==
    \E t \in Threads :
        pc[t] = "acc" /\ cpu_calls[t] = 1 /\ btm[t] # <<>> /\ tp[t] # <<>>

\* The guards held on a blob, counted
ReadGuards(b) ==
    LET n(t) == Cardinality({i \in 1..Len(btm[t]) : btm[t][i] = b})
                + Cardinality({i \in 1..Len(top_blob[t]) : top_blob[t][i] = b})
        RECURSIVE Sum(_)
        Sum(t) == IF t = 0 THEN 0 ELSE n(t) + Sum(t - 1)
    IN  Sum(NumThreads)

WriteGuards(b) ==
    LET n(t) == Cardinality({i \in 1..Len(tp[t]) : tp[t][i] = b})
        RECURSIVE Sum(_)
        Sum(t) == IF t = 0 THEN 0 ELSE n(t) + Sum(t - 1)
    IN  Sum(NumThreads)

\* C5: every blob is held by no writer (and any number of readers) or by
\* exactly one writer and no reader.
C5_ReadersOrOneWriter ==
    \A b \in Blobs :
        WriteGuards(b) = 0 \/ (WriteGuards(b) = 1 /\ ReadGuards(b) = 0)

\* The invocation stands at a read request (line 88) / a write request
\* (line 91) for b
ReadRequest(t, b) ==
    pc[t] = "btm" /\ Len(btm[t]) < Len(bottom[t]) /\ NextBottom(t) = b

WriteRequest(t, b) ==
    pc[t] = "tp" /\ Len(tp[t]) < Len(top[t]) /\ NextTop(t) = b

\* C6: readers of one blob do not block each other, and a writer waits for
\* all of them: a read request on a blob that only other readers hold (no
\* writer holding it or waiting for it) goes through; a write request stays
\* blocked while another invocation holds a read lock on the blob, and goes
\* through once no other invocation holds the blob; so no invocation holds
\* a write lock on a blob another one holds a read lock on.
C6_ReadersShareWriterWaits ==
    \A t \in Threads, b \in Blobs :
        /\ (ReadRequest(t, b) /\ Writers(b) \ {t} = {} /\ ~WriterWaiting(b))
              => ENABLED LockBottom(t)
        /\ (WriteRequest(t, b) /\ Readers(b) \ {t} # {}) => ~ENABLED LockTop(t)
        /\ (WriteRequest(t, b) /\ (Readers(b) \cup Writers(b)) \ {t} = {})
              => ENABLED LockTop(t)
        /\ HoldsWrite(t, b) => Readers(b) \subseteq {t}

\* C6 witness: two invocations hold read locks on a blob a third one requests
\* the write lock of
C6_Witness ==
    \E b \in Blobs, t, u, w \in Threads :
        /\ t # u /\ t # w /\ u # w
        /\ b \in Range(btm[t]) /\ b \in Range(btm[u])
        /\ WriteRequest(w, b)

\* Two invocations that share no blob
Apart(t, u) == t # u /\ ArgBlobs(t) \cap ArgBlobs(u) = {}

C7_NoWaitInState ==
    \A t, u \in Threads :
        (Running(t) /\ Running(u) /\ Apart(t, u)) =>
            /\ \A b \in Requested(t) : ~Holds(u, b)
            /\ \A b \in Blobs : Holds(u, b) => b \notin ArgBlobs(t)

C7_NoEffectInStep ==
    \A t, u \in Threads :
        (/\ Running(t) /\ Local(t)' = Local(t)
         /\ Local(u)' # Local(u)
         /\ Apart(t, u) /\ ArgBlobs(u)' \cap ArgBlobs(t) = {})
        => \A b \in ArgBlobs(t) : BlobState(b)' = BlobState(b)

\* C7: two invocations that share no blob run in parallel.  Neither ever
\* stands at a lock the other holds, and no step of one changes anything the
\* other reads or writes (its own state, its blobs' contents, locks and
\* poison), so what each does and returns is what it does and returns alone.
C7_DisjointInParallel == []C7_NoWaitInState /\ [][C7_NoEffectInStep]_vars

\* C7 witness: two invocations that share no blob each hold the write lock of
\* their top, past forward_cpu, at the same time
C7_Witness ==
    \E t, u \in Threads :
        /\ Apart(t, u)
        /\ pc[t] = "acc" /\ tp[t] # <<>>
        /\ pc[u] = "acc" /\ tp[u] # <<>>

C8_PoisonInState ==
    /\ \A b \in Blobs, t \in Threads : poisoned[b] => ~Holds(t, b)
    /\ \A t \in Threads :
          pc[t] \in {"acc", "drop"} => \A b \in ArgBlobs(t) : ~poisoned[b]

C8_PoisonInStep ==
    /\ \A b \in Blobs : poisoned[b] => poisoned'[b]
    /\ \A t \in Threads :
          ((\E b \in Requested(t) : poisoned[b]) /\ Local(t)' # Local(t))
          => pc'[t] = "panicked" /\ failure'[t] = "poisoned"

\* C8: a poisoned lock stays poisoned, and an invocation that requests the
\* lock of a poisoned blob, as a bottom or as a top, panics at that request:
\* no invocation ever holds a guard on a poisoned blob, and none that was
\* passed one reaches the loss accumulation or returns.
C8_PoisonedLockIsFatal == []C8_PoisonInState /\ [][C8_PoisonInStep]_vars

\* C8 witness: an invocation has panicked on the PoisonError of a lock
C8_Witness ==
    \E t \in Threads, b \in Blobs :
        pc[t] = "panicked" /\ failure[t] = "poisoned" /\ poisoned[b]

C10_SetTwiceIsSetOnce ==
    /\ \A param_id \in 0..MaxParamId, v \in BOOLEAN :
          LET once == SetParamPropagateDown(param_propagate_down, param_id, v)
          IN  SetParamPropagateDown(once, param_id, v) = once
    /\ (/\ Len(calls) = 2
        /\ calls[1].param_id = calls[2].param_id
        /\ calls[1].value = calls[2].value)
       => param_propagate_down = calls[1].after

\* C10 witness: the same call was made twice in a row, the first one growing
\* the vector past unset entries and storing false
C10_Witness ==
    /\ Len(calls) = 2
    /\ calls[1].param_id = calls[2].param_id
    /\ calls[1].value = calls[2].value
    /\ calls[1].value = FALSE
    /\ calls[1].param_id > Len(calls[1].before)

\* What one set_param_propagate_down(param_id, value) call must have done to
\* the vector `before` to leave `after`
C11_Effect(before, param_id, value, after) ==
    /\ Len(after) = (IF param_id >= Len(before) THEN param_id + 1 ELSE Len(before))
    /\ after[param_id + 1] = value
    /\ \A i \in 1..Len(after) :
          i # param_id + 1 => after[i] = (IF i <= Len(before) THEN before[i] ELSE TRUE)

\* C11: set_param_propagate_down(param_id, value) with param_id at or past
\* the length grows the vector to param_id + 1 entries, the new ones true
\* except entry param_id, which is value, and keeps the old entries; with
\* param_id inside the length it changes entry param_id only and not the
\* length.  For every call made and every call that could be made next.
C11_GrowsOrSetsOneEntry ==
    /\ \A k \in 1..Len(calls) :
          C11_Effect(calls[k].before, calls[k].param_id, calls[k].value,
                     calls[k].after)
    /\ \A param_id \in 0..MaxParamId, value \in BOOLEAN :
          C11_Effect(param_propagate_down, param_id, value,
                     SetParamPropagateDown(param_propagate_down, param_id, value))

\* C11 witness: a call stored false past the end of a vector that held a
\* false entry, creating a slot between them; and another call changed an
\* entry inside the length
C11_Witness ==
    /\ Len(calls) = 2
    /\ calls[1].value = FALSE
    /\ calls[1].param_id > Len(calls[1].before)
    /\ \E i \in 1..Len(calls[1].before) : calls[1].before[i] = FALSE
    /\ calls[2].param_id < Len(calls[2].before)
    /\ calls[2].after # calls[2].before

\* The two shapes are equal dimension by dimension
SameShape(a, b) == Len(a) = Len(b) /\ \A i \in 1..Len(a) : a[i] = b[i]

\* C12: with share_mode Strict, check_dimensions returns Ok(()) exactly when
\* the shapes of the two blobs are equal dimension by dimension; otherwise
\* it returns an Err whose message holds the parameter name, the owner's
\* name, the sharing layer's name, the shape string of blob_two as the
\* owner's and the shape string of blob_one as the sharer's.
C12_StrictOkIffSameShape ==
    (cfg_result # <<>> /\ cfg_result.op = "check_dimensions"
     /\ param_config.share_mode = "Strict")
    => IF SameShape(cfg_args.blob_one.shape, cfg_args.blob_two.shape)
       THEN cfg_result.value = <<"Ok">>
       ELSE /\ cfg_result.value[1] = "Err"
            /\ cfg_result.value[2].param = cfg_args.param_name
            /\ cfg_result.value[2].owner = cfg_args.owner_name
            /\ cfg_result.value[2].sharer = cfg_args.layer_name
            /\ cfg_result.value[2].owner_shape = ShapeString(cfg_args.blob_two)
            /\ cfg_result.value[2].sharer_shape = ShapeString(cfg_args.blob_one)

\* C12 witness: a Strict check of two blobs of the same count and capacity
\* but different shapes, the owner named unlike the parameter and the sharer,
\* was rejected
C12_Witness ==
    /\ cfg_result # <<>> /\ cfg_result.op = "check_dimensions"
    /\ param_config.share_mode = "Strict"
    /\ cfg_args.blob_one.shape # cfg_args.blob_two.shape
    /\ Count(cfg_args.blob_one.shape) = Count(cfg_args.blob_two.shape)
    /\ cfg_args.blob_one.capacity = cfg_args.blob_two.capacity
    /\ cfg_args.owner_name # cfg_args.param_name
    /\ cfg_args.owner_name # cfg_args.layer_name
    /\ cfg_result.value[1] = "Err"

\* C13: with share_mode Permissive, check_dimensions returns Ok(()) exactly
\* when the shapes of the two blobs have the same number of elements,
\* whatever the shapes are, and an Err when the counts differ.
C13_PermissiveOkIffSameCount ==
    (cfg_result # <<>> /\ cfg_result.op = "check_dimensions"
     /\ param_config.share_mode = "Permissive")
    => IF Count(cfg_args.blob_one.shape) = Count(cfg_args.blob_two.shape)
       THEN cfg_result.value = <<"Ok">>
       ELSE cfg_result.value[1] = "Err"

\* C14: check_propagate_down_len returns a boolean, true exactly when
\* propagate_down is empty or as long as the list of bottoms; for every
\* number of bottoms and every mask up to MaxCfgBottoms entries.
C14_TrueIffEmptyOrOnePerBottom ==
    (cfg_result # <<>> /\ cfg_result.op = "check_propagate_down_len")
    => /\ cfg_result.value \in BOOLEAN
       /\ cfg_result.value <=>
             (config_propagate_down = <<>>
              \/ Len(config_propagate_down) = Len(config_bottoms))

\* C14 witness: a mask with entries on a config without bottoms was rejected
C14_Witness ==
    /\ cfg_result # <<>> /\ cfg_result.op = "check_propagate_down_len"
    /\ config_bottoms = <<>>
    /\ config_propagate_down # <<>>
    /\ cfg_result.value = FALSE

\* What a multiplier accessor returns for the field it reads
C16_Expected(field) == IF field = <<None>> THEN 1 ELSE field[2]

C16_ResultInState ==
    /\ (cfg_result # <<>> /\ cfg_result.op = "lr_mult")
          => cfg_result.value = C16_Expected(param_config.lr_mult)
    /\ (cfg_result # <<>> /\ cfg_result.op = "decay_mult")
          => cfg_result.value = C16_Expected(param_config.decay_mult)
    /\ \A other \in ParamConfigs :
          /\ other.lr_mult = param_config.lr_mult
                => LrMult(other) = LrMult(param_config)
          /\ other.decay_mult = param_config.decay_mult
                => DecayMult(other) = DecayMult(param_config)

C16_ConfigKeptInStep ==
    (cfg_result' # <<>> /\ cfg_result'.op \in {"lr_mult", "decay_mult"})
    => param_config' = param_config

\* C16: lr_mult() returns the configured learning-rate multiplier, or 1.0
\* when none is set, and decay_mult() the same of the decay multiplier; each
\* result is the same for every ParamConfig with the same value of that
\* field, and neither call changes the ParamConfig.
C16_MultiplierOrOne == []C16_ResultInState /\ [][C16_ConfigKeptInStep]_vars

\* C16 witness: decay_mult() returned the default on a ParamConfig whose
\* learning-rate multiplier is set to another value
C16_Witness ==
    /\ cfg_result # <<>> /\ cfg_result.op = "decay_mult"
    /\ param_config.decay_mult = <<None>>
    /\ param_config.lr_mult = <<"Some", MaxMult>>
    /\ cfg_result.value = 1

\* C15: forward never changes a bottom: no step of an invocation, from its
\* call to its return or its panic, changes the data or the diff of a blob
\* it was passed as a bottom and not as a top, and its arguments stay what
\* they were called with, so every such blob is after the call what it was
\* before.  Stated of an invocation running alone (Spec), where no other
\* invocation writes the blob meanwhile.
C15_BottomsNeverWritten ==
    [][\A t \in Threads :
          /\ \A b \in Range(bottom[t]) \ Range(top[t]) :
                data'[b] = data[b] /\ diff'[b] = diff[b]
          /\ (Running(t) /\ Running(t)') =>
                (bottom'[t] = bottom[t] /\ top'[t] = top[t])]_vars

\* C15 witness: forward_cpu has run and written a top, holding the read
\* guard of a bottom that is no top and whose contents are not the initial
\* ones
C15_Witness ==
    \E t \in Threads :
        /\ pc[t] = "acc" /\ cpu_calls[t] = 1
        /\ \E b \in Range(btm[t]) \ Range(top[t]) :
              data[b] # ZeroContent /\ diff[b] # ZeroContent
        /\ \E a \in Range(tp[t]) : data[a] # ZeroContent

C17_FrameInStep ==
    /\ (fwdVars' # fwdVars \/ blobVars' # blobVars) =>
          /\ loss' = loss
          /\ param_propagate_down' = param_propagate_down
          /\ calls' = calls /\ loss_result' = loss_result
    /\ (param_propagate_down' # param_propagate_down \/ calls' # calls) =>
          /\ calls' # <<>>
          /\ calls'[Len(calls')].before = param_propagate_down
          /\ calls'[Len(calls')].after = param_propagate_down'
          /\ loss' = loss /\ config_tops' = config_tops
          /\ loss_result' = loss_result
          /\ blobVars' = blobVars /\ fwdVars' = fwdVars
    /\ loss_result' # loss_result =>
          /\ loss' = loss
          /\ param_propagate_down' = param_propagate_down
          /\ config_tops' = config_tops /\ calls' = calls
          /\ blobVars' = blobVars /\ fwdVars' = fwdVars

\* C17: the Layer's private state changes only through its configuration
\* methods.  No step of a forward invocation, forward_cpu included, changes
\* loss or param_propagate_down; param_propagate_down changes only in a
\* set_param_propagate_down call, which changes nothing else of the Layer,
\* no blob and no invocation; Layer::loss(id) changes nothing but the
\* result it hands back.
C17_LayerStateOnlyByConfigCalls == [][C17_FrameInStep]_vars

\* C17 witness: forward_cpu has run and written a top on a Layer whose flags
\* were set, one of them to false, and whose loss was queried
C17_Witness ==
    /\ \E t \in Threads :
          /\ pc[t] = "acc" /\ cpu_calls[t] = 1
          /\ \E a \in Range(tp[t]) : data[a] # ZeroContent
    /\ \E i \in 1..Len(param_propagate_down) : param_propagate_down[i] = FALSE
    /\ loss_result # <<>>

\* The param_ids a set_param_propagate_down call was made for
C18_EverSet == {param_id \in 0..MaxParamId : last_set[param_id] # <<>>}

\* C18: on a Layer built by from_config, after any calls of
\* set_param_propagate_down, param_propagate_down is empty if none was made
\* and otherwise has one entry more than the largest param_id ever passed;
\* entry i holds the value of the latest call for i, or true if there was
\* none.
C18_LengthAndEntriesFromCalls ==
    /\ Len(param_propagate_down) =
          (IF C18_EverSet = {} THEN 0
           ELSE 1 + CHOOSE m \in C18_EverSet : \A i \in C18_EverSet : i <= m)
    /\ \A i \in 1..Len(param_propagate_down) :
          param_propagate_down[i] =
             (IF last_set[i - 1] = <<>> THEN TRUE ELSE last_set[i - 1][1])

\* C18 witness: after a call for the largest param_id and calls for the
\* smallest, the latest one storing false, the entry between them was never
\* set and the vector has not shrunk
C18_Witness ==
    /\ last_set[0] = <<FALSE>>
    /\ last_set[MaxParamId] # <<>>
    /\ \E i \in 1..(MaxParamId - 1) : last_set[i] = <<>>
    /\ Len(calls) = 2
    /\ calls[1].param_id = MaxParamId /\ calls[2].param_id = 0
    /\ Len(param_propagate_down) = MaxParamId + 1

\* C19: when forward has returned, the invocation holds no lock: the read
\* guards of the bottoms, the write guards of the tops and the read guard of
\* the loop are all dropped, so that a write request on any blob is held back
\* only by invocations that are still running.
C19_NoLockHeldAtReturn ==
    /\ \A t \in Threads :
          pc[t] = "returned" => \A b \in Blobs : ~Holds(t, b)
    /\ \A u \in Threads, b \in Blobs :
          (/\ WriteRequest(u, b) /\ ~Holds(u, b)
           /\ \A w \in Threads \ {u} : Running(w) => ~Holds(w, b))
          => ENABLED LockTop(u)

\* C19 witness: an invocation has returned a loss, so it held the write
\* lock and the read lock of a top; the only blob written so far is now
\* write-locked by another invocation, which has not yet run forward_cpu
C19_Witness ==
    \E t, u \in Threads, b \in Blobs :
        /\ t # u
        /\ pc[t] = "returned" /\ cpu_calls[t] = 1 /\ fwd_loss[t] > 0
        /\ data[b] # ZeroContent
        /\ \A c \in Blobs \ {b} : data[c] = ZeroContent
        /\ pc[u] = "tp" /\ HoldsWrite(u, b)

\* The invocation was called with no top and with bottoms whose locks are
\* not poisoned
C20_EmptyTops(t) ==
    /\ Running(t)
    /\ top[t] = <<>>
    /\ \A b \in Range(bottom[t]) : ~poisoned[b]

C20_OnlyReadsInState ==
    \A t \in Threads :
        C20_EmptyTops(t) =>
            /\ tp[t] = <<>> /\ top_blob[t] = <<>>
            /\ pc[t] # "deadlocked"
            /\ fwd_loss[t] = 0
            /\ cpu_calls[t] = (IF pc[t] \in {"acc", "drop"} THEN 1 ELSE 0)

C20_ReturnsZeroInStep ==
    \A t \in Threads :
        (C20_EmptyTops(t) /\ ~Running(t)') =>
            \/ pc'[t] = "returned" /\ fwd_loss'[t] = 0 /\ cpu_calls'[t] = 1
            \/ pc'[t] = "panicked" /\ failure'[t] = "worker" /\ cpu_calls'[t] = 1

\* C20: a forward invocation with no tops, on bottoms whose locks are not
\* poisoned and which no other invocation holds, takes read locks only,
\* calls forward_cpu exactly once, and ends: it returns the loss 0 (or the
\* Worker panics inside forward_cpu); it is never blocked.
C20_EmptyTopsReturnsZero ==
    /\ []C20_OnlyReadsInState
    /\ [][C20_ReturnsZeroInStep]_vars
    /\ \A t \in Threads : C20_EmptyTops(t) ~> ~Running(t)

\* C20 witness: an invocation with MaxBottoms bottoms and no top, one of the
\* bottoms holding data and diff that are not zero, is past its loop with
\* forward_cpu called once and the loss 0
C20_Witness ==
    \E t \in Threads :
        /\ pc[t] = "drop"
        /\ top[t] = <<>>
        /\ Len(btm[t]) = MaxBottoms
        /\ \E b \in Range(btm[t]) : leaf_cpu_dot(data[b], diff[b]) # 0
        /\ cpu_calls[t] = 1 /\ fwd_loss[t] = 0

====
